---- MODULE Spec2Model ----
(***************************************************************************)
(* Kuramoto-coupled LFO group of AudioNoise (coupled_lfo.h) as a state     *)
(* machine: a group of phase-accumulator oscillators, the per-oscillator   *)
(* coupled step and the order-parameter diagnostic.                        *)
(*                                                                         *)
(* Number representation.                                                  *)
(*  - A u32 is the pair <<hi, lo>> of its 16-bit halves, so that 32-bit    *)
(*    wraparound is computed exactly although TLC's integers are 32-bit    *)
(*    signed.  The same pair with an unbounded hi is a "wide" natural      *)
(*    number (used for the 48-bit products adj * step).                    *)
(*  - A float is a fixed-point integer in units of 1/FLOAT_ONE (2^-14).    *)
(*    Float rounding is therefore abstracted: operations are exact on      *)
(*    the fixed-point grid and round to the nearest grid point, ties away  *)
(*    from zero, symmetrically in the sign.                                *)
(***************************************************************************)
EXTENDS Integers, Sequences, FiniteSets, TLC

(* ----------------------------- bounds --------------------------------- *)

\* Largest count the initial configurations use (capacity is MAX_COUPLED_LFOS).
MaxCount == 3

\* Largest total number of coupled_lfo_step calls in one behaviour.
MaxSteps == 3

\* Number of samples a synchronisation run lasts.
SyncSamples == 14500

\* Largest number of entrained_step calls in one behaviour.
EntrainedSamples == 4

\* Largest number of basspurr_step calls in one behaviour.
PurrSamples == 6

(* ------------------------ program constants --------------------------- *)

MAX_COUPLED_LFOS == 8

ENTRAINED_VOICES == 3

\* Table resolution: the quarter period holds 2^QUARTER_SINE_STEP_SHIFT steps.
QUARTER_SINE_STEP_SHIFT == 8

TWO_POW_16 == 2^16

\* 1.0f on the fixed-point grid.
FLOAT_ONE == 2^14

(* --------------------------- u32 arithmetic --------------------------- *)

U32Zero == <<0, 0>>

\* The u32 with value hi * 2^16 + lo.
U32Of(hi, lo) == <<hi % TWO_POW_16, lo % TWO_POW_16>>

\* a + b modulo 2^32.
U32Add(a, b) ==
  LET lo == a[2] + b[2]
      hi == a[1] + b[1] + (lo \div TWO_POW_16)
  IN  <<hi % TWO_POW_16, lo % TWO_POW_16>>

\* ~a (bitwise complement).
U32Not(a) == <<(TWO_POW_16 - 1) - a[1], (TWO_POW_16 - 1) - a[2]>>

\* -a modulo 2^32.
U32Neg(a) == U32Add(U32Not(a), <<0, 1>>)

\* a - b modulo 2^32 (unsigned subtraction).
U32Sub(a, b) == U32Add(a, U32Neg(b))

\* a << k modulo 2^32, for 0 <= k <= 14.
U32Shl(a, k) ==
  LET lo == a[2] * 2^k
      hi == a[1] * 2^k + (lo \div TWO_POW_16)
  IN  <<hi % TWO_POW_16, lo % TWO_POW_16>>

\* a >> k as an integer, for 16 <= k <= 32 (the result fits 16 bits).
U32Shr(a, k) == a[1] \div 2^(k - 16)

(* ----------------------- wide natural numbers ------------------------- *)

\* c * w for a small factor 0 <= c < 2^15 and a u32 w: a wide number.
WMul(c, w) ==
  LET lo == c * w[2]
  IN  <<c * w[1] + (lo \div TWO_POW_16), lo % TWO_POW_16>>

\* x + y for wide numbers.
WAdd(x, y) ==
  LET lo == x[2] + y[2]
  IN  <<x[1] + y[1] + (lo \div TWO_POW_16), lo % TWO_POW_16>>

\* floor(x / 2^14) for a wide number x.
WShr14(x) ==
  <<x[1] \div 2^14, ((x[1] % 2^14) * 4 + (x[2] \div 2^14)) % TWO_POW_16>>

\* x * 2^14 for a wide number x with x[1] < 2^16.
WShl14(x) ==
  <<x[1] * 2^14 + (x[2] \div 4), (x[2] % 4) * 2^14>>

WLe(x, y) == x[1] < y[1] \/ (x[1] = y[1] /\ x[2] <= y[2])

WLt(x, y) == x[1] < y[1] \/ (x[1] = y[1] /\ x[2] < y[2])

(* ------------------------ fixed-point floats -------------------------- *)

Abs(n) == IF n < 0 THEN -n ELSE n

\* n / d rounded to the nearest integer, ties away from zero (d > 0).
RoundDiv(n, d) ==
  IF n >= 0 THEN (n + (d \div 2)) \div d ELSE -(((-n) + (d \div 2)) \div d)

\* The float product a * b.
FMul(a, b) == RoundDiv(a * b, FLOAT_ONE)

\* The float quotient a / n for an int n > 0.
FDivInt(a, n) == RoundDiv(a, n)

\* floor(sqrt(n)) for 0 <= n < 2^30, by bisection on [lo, hi).
RECURSIVE ISqrtIn(_, _, _)
ISqrtIn(n, lo, hi) ==
  IF hi - lo <= 1 THEN lo
  ELSE LET mid == (lo + hi) \div 2
       IN  IF mid * mid <= n THEN ISqrtIn(n, mid, hi) ELSE ISqrtIn(n, lo, mid)

\* sqrtf() of the float whose value times FLOAT_ONE^2 is n, rounded to the
\* nearest grid point.
FSqrtSq(n) ==
  LET s == ISqrtIn(n, 0, 2^15)
  IN  IF n - s * s > s THEN s + 1 ELSE s

(* ------------------------ lookup-table sine --------------------------- *)

\* quarter_sin[i] = sin(i / 2^QUARTER_SINE_STEP_SHIFT * pi/2), i = 0 .. 256,
\* on the fixed-point grid (sequence index i + 1).
quarter_sin ==
  <<
     0, 101, 201, 302, 402, 503, 603, 704, 804, 904, 1005, 1105,
     1205, 1306, 1406, 1506, 1606, 1706, 1806, 1906, 2006, 2105, 2205, 2305,
     2404, 2503, 2603, 2702, 2801, 2900, 2999, 3098, 3196, 3295, 3393, 3492,
     3590, 3688, 3786, 3883, 3981, 4078, 4176, 4273, 4370, 4467, 4563, 4660,
     4756, 4852, 4948, 5044, 5139, 5235, 5330, 5425, 5520, 5614, 5708, 5803,
     5897, 5990, 6084, 6177, 6270, 6363, 6455, 6547, 6639, 6731, 6823, 6914,
     7005, 7096, 7186, 7276, 7366, 7456, 7545, 7635, 7723, 7812, 7900, 7988,
     8076, 8163, 8250, 8337, 8423, 8509, 8595, 8680, 8765, 8850, 8935, 9019,
     9102, 9186, 9269, 9352, 9434, 9516, 9598, 9679, 9760, 9841, 9921, 10001,
     10080, 10159, 10238, 10316, 10394, 10471, 10549, 10625, 10702, 10778, 10853, 10928,
     11003, 11077, 11151, 11224, 11297, 11370, 11442, 11514, 11585, 11656, 11727, 11797,
     11866, 11935, 12004, 12072, 12140, 12207, 12274, 12340, 12406, 12472, 12537, 12601,
     12665, 12729, 12792, 12854, 12916, 12978, 13039, 13100, 13160, 13219, 13279, 13337,
     13395, 13453, 13510, 13567, 13623, 13678, 13733, 13788, 13842, 13896, 13949, 14001,
     14053, 14104, 14155, 14206, 14256, 14305, 14354, 14402, 14449, 14497, 14543, 14589,
     14635, 14680, 14724, 14768, 14811, 14854, 14896, 14937, 14978, 15019, 15059, 15098,
     15137, 15175, 15213, 15250, 15286, 15322, 15357, 15392, 15426, 15460, 15493, 15525,
     15557, 15588, 15619, 15649, 15679, 15707, 15736, 15763, 15791, 15817, 15843, 15868,
     15893, 15917, 15941, 15964, 15986, 16008, 16029, 16049, 16069, 16088, 16107, 16125,
     16143, 16160, 16176, 16192, 16207, 16221, 16235, 16248, 16261, 16273, 16284, 16295,
     16305, 16315, 16324, 16332, 16340, 16347, 16353, 16359, 16364, 16369, 16373, 16376,
     16379, 16381, 16383, 16384, 16384
  >>

\* u32_to_fraction(x): x / 2^32 as a float; kept as the numerator of the
\* fraction over 2^24 (a float mantissa holds 24 bits).
u32_to_fraction(x) == x[1] * 2^8 + (x[2] \div 2^8)

\* sin() of a raw u32 phase from the quarter-wave table, without advancing.
phase_sin(phase) ==
  LET quarter == U32Shr(phase, 30)
      p1      == U32Shl(phase, 2)
      p2      == IF quarter % 2 = 1 THEN U32Not(p1) ELSE p1
      idx     == U32Shr(p2, 32 - QUARTER_SINE_STEP_SHIFT)
      a       == quarter_sin[idx + 1]
      b       == quarter_sin[idx + 2]
      p3      == U32Shl(p2, QUARTER_SINE_STEP_SHIFT)
      val     == a + RoundDiv((b - a) * u32_to_fraction(p3), 2^24)
  IN  IF (quarter \div 2) % 2 = 1 THEN -val ELSE val

\* Mutant of phase_cos: the offset is half a turn (1u << 31).
phase_cos_half_turn(phase) == phase_sin(U32Add(phase, <<2^15, 0>>))

\* cos(phase) = sin(phase + pi/2): a quarter turn is 2^30.
phase_cos(phase) == phase_sin(U32Add(phase, <<2^14, 0>>))

(* --------------------------- phase oscillator ------------------------- *)

lfo_sinewave == "lfo_sinewave"

lfo_triangle == "lfo_triangle"

lfo_sawtooth == "lfo_sawtooth"

LfoTypes == {lfo_sinewave, lfo_triangle, lfo_sawtooth}

\* struct lfo_state: idx is the phase, step the per-sample increment.
LfoState(idx, step) == [idx |-> idx, step |-> step]

\* readout(waveform) of a phase: sine from the table, triangle piecewise
\* linear in [-1,1], sawtooth the linear ramp [0,1).
lfo_readout(phase, type) ==
  IF type = lfo_sinewave THEN phase_sin(phase)
  ELSE IF type = lfo_sawtooth THEN U32Shr(phase, 18)
  ELSE LET quarter == U32Shr(phase, 30)
           p1      == U32Shl(phase, 2)
           p2      == IF quarter % 2 = 1 THEN U32Not(p1) ELSE p1
           val     == U32Shr(p2, 18)
       IN  IF (quarter \div 2) % 2 = 1 THEN -val ELSE val

\* lfo_step(): advance the phase by the increment (modulo 2^32) and return
\* the waveform sample at the advanced phase.
lfo_step(lfo, type) ==
  LET next == U32Add(lfo.idx, lfo.step)
  IN  [lfo |-> [lfo EXCEPT !.idx = next], val |-> lfo_readout(next, type)]

(* ------------------------- Kuramoto coupling -------------------------- *)

Slots == 0 .. (MAX_COUPLED_LFOS - 1)

\* Mutant of coupling_enabled: the coupling is tested against zero only.
coupling_enabled_nonzero(g) == g.coupling # 0 /\ g.count > 1

\* The branch condition of coupled_lfo_step.
coupling_enabled(g) == g.coupling > 0 /\ g.count > 1

\* sum of phase_sin(lfos[j].idx - lfo->idx) over j = from .. count-1, j # idx.
RECURSIVE coupling_sum_from(_, _, _)
coupling_sum_from(g, idx, from) ==
  IF from >= g.count THEN 0
  ELSE (IF from = idx THEN 0
        ELSE phase_sin(U32Sub(g.lfos[from].idx, g.lfos[idx].idx)))
       + coupling_sum_from(g, idx, from + 1)

\* Mutant of coupling_sum: the loop runs over the whole capacity instead
\* of the active oscillators.
coupling_sum_all_slots(g, idx) ==
  coupling_sum_from([g EXCEPT !.count = MAX_COUPLED_LFOS], idx, 0)

\* Mutant of coupling_sum: the phase differences are taken the other way
\* round, which turns the attraction into a repulsion.
coupling_sum_reversed(g, idx) == 0 - coupling_sum_from(g, idx, 0)

\* The coupling sum of oscillator idx.
coupling_sum(g, idx) == coupling_sum_from(g, idx, 0)

\* Mutant of coupling_adj: the sum is not divided by count.
coupling_adj_unnormalised(g, idx) == FMul(g.coupling, coupling_sum(g, idx))

\* adj = coupling * sum / count.
coupling_adj(g, idx) ==
  FDivInt(FMul(g.coupling, coupling_sum(g, idx)), g.count)

\* |adj * lfo->step| as a wide number with 14 fraction bits.
adj_times_step(adj, step) == WMul(Abs(adj), step)

\* Whether the float of magnitude prod (14 fraction bits) and sign neg
\* truncates to a value an s32 holds.
S32InRange(neg, prod) ==
  LET mag == WShr14(prod)
  IN  IF neg THEN WLe(mag, <<2^15, 0>>) ELSE WLt(mag, <<2^15, 0>>)

\* Mutant of S32Cast: the conversion rounds to the nearest integer.
S32Cast_rounds(neg, prod) ==
  LET mag == WShr14(WAdd(prod, <<0, 2^13>>))
  IN  IF S32InRange(neg, prod)
      THEN {IF neg THEN U32Neg(<<mag[1] % TWO_POW_16, mag[2]>>) ELSE mag}
      ELSE {<<2^15, 0>>, IF neg THEN <<2^15, 0>> ELSE <<2^15 - 1, TWO_POW_16 - 1>>}

\* (s32) of a float, as the u32 bit patterns the conversion can yield:
\* truncation toward zero when the value is in range, otherwise (undefined
\* behaviour) the "integer indefinite" value 0x80000000 of the x86
\* conversion or the saturated value of the ARM conversion.
S32Cast(neg, prod) ==
  LET mag == WShr14(prod)
  IN  IF S32InRange(neg, prod)
      THEN {IF neg THEN U32Neg(<<mag[1] % TWO_POW_16, mag[2]>>) ELSE mag}
      ELSE {<<2^15, 0>>, IF neg THEN <<2^15, 0>> ELSE <<2^15 - 1, TWO_POW_16 - 1>>}

\* Mutant of coupling_extra: the coupling strength is ignored, so the term
\* is applied whenever the group has more than one oscillator.
coupling_extra_ungated(g, idx) ==
  IF g.count > 1
  THEN LET adj == FDivInt(coupling_sum(g, idx), g.count)
       IN  S32Cast(adj < 0, adj_times_step(adj, g.lfos[idx].step))
  ELSE {U32Zero}

\* The values "(s32)(adj * lfo->step)" can add to the phase in this call;
\* nothing is added when the coupled branch is skipped.
coupling_extra(g, idx) ==
  IF coupling_enabled(g)
  THEN LET adj == coupling_adj(g, idx)
       IN  S32Cast(adj < 0, adj_times_step(adj, g.lfos[idx].step))
  ELSE {U32Zero}

\* Mutant of coupled_lfo_step: the coupling term pulls the increment (the
\* frequency) instead of the phase.
coupled_lfo_step_pulls_step(g, idx, type) ==
  { LET lfo == g.lfos[idx]
        r   == lfo_step([lfo EXCEPT !.step = U32Add(lfo.step, extra)], type)
    IN  [g       |-> [g EXCEPT !.lfos[idx] = r.lfo],
         val     |-> r.val,
         coupled |-> coupling_enabled(g),
         extra   |-> extra]
    : extra \in coupling_extra(g, idx) }

\* Mutant of coupled_lfo_step: the oscillator is advanced by lfo_step first
\* and the coupling term is computed and added afterwards.
coupled_lfo_step_advance_first(g, idx, type) ==
  { LET r  == lfo_step(g.lfos[idx], type)
        g1 == [g EXCEPT !.lfos[idx] = r.lfo]
    IN  [g       |-> [g1 EXCEPT !.lfos[idx].idx = U32Add(r.lfo.idx, extra)],
         val     |-> r.val,
         coupled |-> coupling_enabled(g),
         extra   |-> extra]
    : extra \in coupling_extra([g EXCEPT !.lfos[idx] = lfo_step(g.lfos[idx], type).lfo], idx) }

\* Mutant of coupled_lfo_step: the pull is applied symmetrically, the
\* opposite extra being added to the next active oscillator.
coupled_lfo_step_pushes_partner(g, idx, type) ==
  { LET lfo == g.lfos[idx]
        r   == lfo_step([lfo EXCEPT !.idx = U32Add(lfo.idx, extra)], type)
        p   == IF g.count > 0 THEN (idx + 1) % g.count ELSE idx
        g1  == [g EXCEPT !.lfos[p].idx = U32Sub(g.lfos[p].idx, extra)]
    IN  [g       |-> [g1 EXCEPT !.lfos[idx] = r.lfo],
         val     |-> r.val,
         coupled |-> coupling_enabled(g),
         extra   |-> extra]
    : extra \in coupling_extra(g, idx) }

\* Mutant of coupled_lfo_step: an index outside [0, count) is rejected and
\* the call returns 0 without touching the group.
coupled_lfo_step_checked(g, idx, type) ==
  IF idx >= g.count
  THEN { [g |-> g, val |-> 0, coupled |-> FALSE, extra |-> U32Zero] }
  ELSE { LET lfo == g.lfos[idx]
             r   == lfo_step([lfo EXCEPT !.idx = U32Add(lfo.idx, extra)], type)
         IN  [g       |-> [g EXCEPT !.lfos[idx] = r.lfo],
              val     |-> r.val,
              coupled |-> coupling_enabled(g),
              extra   |-> extra]
         : extra \in coupling_extra(g, idx) }

\* coupled_lfo_step(g, idx, type): the possible outcomes, each the group
\* after the call, the returned sample, whether the coupled branch ran and
\* the extra phase advance it added.
coupled_lfo_step(g, idx, type) ==
  { LET lfo == g.lfos[idx]
        r   == lfo_step([lfo EXCEPT !.idx = U32Add(lfo.idx, extra)], type)
    IN  [g       |-> [g EXCEPT !.lfos[idx] = r.lfo],
         val     |-> r.val,
         coupled |-> coupling_enabled(g),
         extra   |-> extra]
    : extra \in coupling_extra(g, idx) }

(* -------------------------- order parameter --------------------------- *)

RECURSIVE cos_sum_from(_, _)
cos_sum_from(g, i) ==
  IF i >= g.count THEN 0
  ELSE phase_cos(g.lfos[i].idx) + cos_sum_from(g, i + 1)

RECURSIVE sin_sum_from(_, _)
sin_sum_from(g, i) ==
  IF i >= g.count THEN 0
  ELSE phase_sin(g.lfos[i].idx) + sin_sum_from(g, i + 1)

\* Mutant of coupled_lfo_order_parameter: the sines are read with lfo_step,
\* which advances every active oscillator.
coupled_lfo_order_parameter_advancing(g) ==
  IF g.count = 0 THEN [g |-> g, r |-> 0]
  ELSE LET cs == FDivInt(cos_sum_from(g, 0), g.count)
           sn == FDivInt(sin_sum_from(g, 0), g.count)
           adv == [i \in Slots |-> IF i < g.count
                                   THEN lfo_step(g.lfos[i], lfo_sinewave).lfo
                                   ELSE g.lfos[i]]
       IN  [g |-> [g EXCEPT !.lfos = adv], r |-> FSqrtSq(cs * cs + sn * sn)]

\* Mutant of coupled_lfo_order_parameter: the empty group is reported as
\* fully synchronised.
coupled_lfo_order_parameter_empty_one(g) ==
  IF g.count = 0 THEN [g |-> g, r |-> FLOAT_ONE]
  ELSE LET cs == FDivInt(cos_sum_from(g, 0), g.count)
           sn == FDivInt(sin_sum_from(g, 0), g.count)
       IN  [g |-> g, r |-> FSqrtSq(cs * cs + sn * sn)]

\* coupled_lfo_order_parameter(g): the group after the call and the
\* returned r.
coupled_lfo_order_parameter(g) ==
  IF g.count = 0 THEN [g |-> g, r |-> 0]
  ELSE LET cs == FDivInt(cos_sum_from(g, 0), g.count)
           sn == FDivInt(sin_sum_from(g, 0), g.count)
       IN  [g |-> g, r |-> FSqrtSq(cs * cs + sn * sn)]

(* ------------------------------ state --------------------------------- *)

VARIABLES
  g,           \* struct coupled_lfo_group: lfos, count, coupling
  cfg,         \* the group as it was configured (never written afterwards)
  standalone,  \* per slot, an uncoupled lfo_state stepped alongside (as the tests do)
  nsteps,      \* per slot, the number of coupled_lfo_step calls made on it
  stepped,     \* the slots stepped, each once, since the current sample began
  extras,      \* per slot, the extra phase advance of its latest step
  call,        \* the latest call: its arguments, result and the group before it
  basspurr,    \* the bass-purr effect's state: last_sign, sub_phase, envelope
  purrlog      \* what the bass-purr calls made so far did (observation only)

vars == <<g, cfg, standalone, nsteps, stepped, extras, call, basspurr, purrlog>>

(* ------------------------- initial configurations --------------------- *)

\* coupling values: -0.5, 0, 0.25, 1.0 and 1.5.
Couplings == {-(2^13), 0, 2^12, 2^14, 2^14 + 2^13}

ZeroLfo == LfoState(U32Zero, U32Zero)

\* A 1 Hz increment at 48 kHz: rint(2^32 / 48000) = 89478.
Step1Hz == U32Of(1, 23942)

\* The (phase, increment) pairs a slot can be configured with.
SlotInputs(i) ==
  IF i >= MaxCount THEN {ZeroLfo}
  ELSE IF i = 0 THEN { LfoState(U32Zero, U32Of(0, 3)),
                       LfoState(U32Zero, U32Of(61440, 0)),
                       LfoState(U32Of(7296, 27648), Step1Hz) }
  ELSE IF i = 1 THEN { LfoState(U32Of(2^14, 0), U32Of(0, 7)),
                       LfoState(U32Of(32, 0), U32Of(0, 3)),
                       LfoState(U32Of(49152, 1), U32Of(1, 0)) }
  ELSE IF i = 2 THEN { LfoState(U32Of(2^14, 0), Step1Hz),
                       LfoState(U32Of(2^15, 0), U32Of(2^15 - 1, TWO_POW_16 - 1)) }
  ELSE { LfoState(U32Of(4660, 22136), U32Of(0, 1)) }

InitLfos ==
  { [i \in Slots |-> IF i = 0 THEN a ELSE IF i = 1 THEN b
                     ELSE IF i = 2 THEN c ELSE IF i = 3 THEN d ELSE ZeroLfo]
    : a \in SlotInputs(0), b \in SlotInputs(1),
      c \in SlotInputs(2), d \in SlotInputs(3) }

NoCall(grp) ==
  [op |-> "init", idx |-> 0, type |-> lfo_sinewave, val |-> 0, ref |-> 0,
   coupled |-> FALSE, extra |-> U32Zero, r |-> 0, pre |-> grp,
   order |-> << >>]

\* basspurr_init: the octave divider starts at last_sign 1, sub_phase 0 and
\* an empty envelope.
basspurr_init == [last_sign |-> 1, sub_phase |-> 0, envelope |-> 0]

\* Nothing observed yet: no call, no sign change, no change of sub_phase.
NoPurr == [calls |-> 0, crossings |-> 0, flips |-> 0, sign |-> 1,
           pre |-> basspurr_init]

InitWith(grp) ==
  /\ g = grp
  /\ cfg = grp
  /\ standalone = grp.lfos
  /\ nsteps = [i \in Slots |-> 0]
  /\ stepped = {}
  /\ extras = [i \in Slots |-> U32Zero]
  /\ call = NoCall(grp)
  /\ basspurr = basspurr_init
  /\ purrlog = NoPurr

Init ==
  \E lf \in InitLfos, c \in 0 .. MaxCount, k \in Couplings :
    InitWith([lfos |-> lf, count |-> c, coupling |-> k])

\* Phases of a single oscillator spread over the whole turn: the table
\* nodes (hi a multiple of 64), the midpoints between them and the phases
\* next to them.
SweepPhases == { U32Of(32 * k, lo) : k \in 0 .. 2047, lo \in {0, TWO_POW_16 - 1} }

\* A group of one oscillator at any of the sweep phases, as test_single_lfo
\* configures it.
InitSweep ==
  \E p \in SweepPhases :
    InitWith([lfos |-> [i \in Slots |-> IF i = 0 THEN LfoState(p, Step1Hz)
                                        ELSE ZeroLfo],
              count |-> 1, coupling |-> FLOAT_ONE])

(* ------------------------------ actions ------------------------------- *)

RECURSIVE SumUpTo(_, _)
SumUpTo(f, n) == IF n < 0 THEN 0 ELSE f[n] + SumUpTo(f, n - 1)

TotalSteps == SumUpTo(nsteps, MAX_COUPLED_LFOS - 1)

Active == 0 .. (g.count - 1)

\* Mutant of CoupledStep: the coupling sum reads the other oscillators from
\* a snapshot taken when the group was configured instead of the group as
\* it is at the time of the call.
CoupledStep_snapshot(idx, type) ==
  /\ idx \in Active
  /\ TotalSteps < MaxSteps
  /\ LET snap == [g EXCEPT !.lfos = [i \in Slots |->
                    IF i = idx THEN g.lfos[i] ELSE cfg.lfos[i]]]
     IN  \E out \in coupled_lfo_step(snap, idx, type) :
           LET alone == lfo_step(standalone[idx], type)
           IN  /\ g' = [g EXCEPT !.lfos[idx] = out.g.lfos[idx]]
               /\ standalone' = [standalone EXCEPT ![idx] = alone.lfo]
               /\ extras' = [extras EXCEPT ![idx] = out.extra]
               /\ call' = [op |-> "step", idx |-> idx, type |-> type,
                           val |-> out.val, ref |-> alone.val,
                           coupled |-> out.coupled, extra |-> out.extra,
                           r |-> 0, pre |-> g, order |-> <<idx>>]
  /\ nsteps' = [nsteps EXCEPT ![idx] = @ + 1]
  /\ stepped' = IF stepped = Active \/ idx \in stepped
                THEN {idx} ELSE stepped \cup {idx}
  /\ UNCHANGED <<cfg, basspurr, purrlog>>

\* One call coupled_lfo_step(g, idx, type) and what the caller keeps beside
\* it: as the tests do, a standalone oscillator stepped with lfo_step.
StepCall(idx, type) ==
  /\ \E out \in coupled_lfo_step(g, idx, type) :
       LET alone == lfo_step(standalone[idx], type)
       IN  /\ g' = out.g
           /\ standalone' = [standalone EXCEPT ![idx] = alone.lfo]
           /\ extras' = [extras EXCEPT ![idx] = out.extra]
           /\ call' = [op |-> "step", idx |-> idx, type |-> type,
                       val |-> out.val, ref |-> alone.val,
                       coupled |-> out.coupled, extra |-> out.extra,
                       r |-> 0, pre |-> g, order |-> <<idx>>]
  /\ nsteps' = [nsteps EXCEPT ![idx] = @ + 1]
  /\ stepped' = IF stepped = Active \/ idx \in stepped
                THEN {idx} ELSE stepped \cup {idx}
  /\ UNCHANGED <<cfg, basspurr, purrlog>>

\* The caller steps an active oscillator idx of the group.
CoupledStep(idx, type) ==
  /\ idx \in Active
  /\ TotalSteps < MaxSteps
  /\ StepCall(idx, type)

\* The caller reads the order parameter.
OrderParameter ==
  /\ LET res == coupled_lfo_order_parameter(g)
     IN  /\ g' = res.g
         /\ call' = [op |-> "order", idx |-> 0, type |-> lfo_sinewave,
                     val |-> 0, ref |-> 0, coupled |-> FALSE,
                     extra |-> U32Zero, r |-> res.r, pre |-> g,
                     order |-> << >>]
  /\ UNCHANGED <<cfg, standalone, nsteps, stepped, extras, basspurr, purrlog>>

Next ==
  \/ \E idx \in Slots, type \in LfoTypes : CoupledStep(idx, type)
  \/ OrderParameter

Spec == Init /\ [][Next]_vars

SpecSweep == InitSweep /\ [][Next]_vars

(* ----------------------- contract violations -------------------------- *)

\* The configurations explored with out-of-contract calls: oscillator 0 at
\* phase 0, fewer active oscillators than configured slots, no coupling or
\* a coupling of 0.25.
InitMisuse ==
  \E lf \in InitLfos, c \in 0 .. (MaxCount - 1), k \in {0, 2^12} :
    /\ lf[0] = LfoState(U32Zero, U32Of(0, 3))
    /\ InitWith([lfos |-> lf, count |-> c, coupling |-> k])

\* The caller breaks the contract: it steps a slot idx with
\* count <= idx < MAX_COUPLED_LFOS.  The index is inside the array, so the
\* call is the same code on an inert slot.
CoupledStepInert(idx, type) ==
  /\ idx \in Slots \ Active
  /\ TotalSteps < MaxSteps
  /\ StepCall(idx, type)

NextMisuse ==
  \/ \E idx \in Slots, type \in LfoTypes : CoupledStep(idx, type)
  \/ \E idx \in Slots, type \in LfoTypes : CoupledStepInert(idx, type)
  \/ OrderParameter

SpecMisuse == InitMisuse /\ [][NextMisuse]_vars

(* --------------------------- synchronisation -------------------------- *)

\* A 2 Hz increment at 48 kHz: rint(2 * 2^32 / 48000) = 178957.
Step2Hz == U32Of(2, 47885)

\* Coupling, common increment and initial offset of oscillator 1 of the
\* synchronisation runs: the test's (0.3, 2 Hz, a quarter turn), faster
\* oscillators at weak and full coupling, offsets of a quarter turn, three
\* quarters of a turn and one unit short of half a turn; then a slow
\* oscillator 1001 units short of half a turn and an oscillator that turns
\* a quarter per sample.
SyncConfigs ==
  { [coupling |-> 4915,  step |-> Step2Hz,         offset |-> U32Of(2^14, 0)],
    [coupling |-> 2^12,  step |-> U32Of(1024, 0),  offset |-> U32Of(2^14, 0)],
    [coupling |-> 2^14,  step |-> U32Of(1024, 0),  offset |-> U32Of(2^15 - 1, TWO_POW_16 - 1)],
    [coupling |-> 2^12,  step |-> U32Of(1024, 0),  offset |-> U32Of(49152, 0)],
    [coupling |-> 2^14,  step |-> U32Of(4096, 0),  offset |-> U32Of(2^14, 0)],
    [coupling |-> 4915,  step |-> U32Of(0, 17896), offset |-> U32Of(2^15 - 1, 64535)],
    [coupling |-> 2^14,  step |-> U32Of(2^14, 0),  offset |-> U32Of(2^14, 0)] }

\* test_synchronization's group: two oscillators of the same increment,
\* oscillator 1 offset.
InitSync ==
  \E c \in SyncConfigs :
    InitWith([lfos |-> [i \in Slots |->
                         IF i = 0 THEN LfoState(U32Zero, c.step)
                         ELSE IF i = 1 THEN LfoState(c.offset, c.step)
                         ELSE ZeroLfo],
              count |-> 2, coupling |-> c.coupling])

\* One sample of test_synchronization's loop: oscillator 0 is stepped, then
\* oscillator 1.
SyncSample ==
  /\ nsteps[1] < SyncSamples
  /\ \E o0 \in coupled_lfo_step(g, 0, lfo_sinewave) :
       \E o1 \in coupled_lfo_step(o0.g, 1, lfo_sinewave) :
         /\ g' = o1.g
         /\ extras' = [extras EXCEPT ![0] = o0.extra, ![1] = o1.extra]
         /\ call' = [op |-> "sample", idx |-> 1, type |-> lfo_sinewave,
                     val |-> o1.val, ref |-> 0,
                     coupled |-> o1.coupled, extra |-> o1.extra,
                     r |-> 0, pre |-> o0.g, order |-> <<0, 1>>]
  /\ standalone' = [standalone EXCEPT
                      ![0] = lfo_step(@, lfo_sinewave).lfo,
                      ![1] = lfo_step(@, lfo_sinewave).lfo]
  /\ nsteps' = [nsteps EXCEPT ![0] = @ + 1, ![1] = @ + 1]
  /\ stepped' = {0, 1}
  /\ UNCHANGED <<cfg, basspurr, purrlog>>

NextSync == SyncSample

\* The loop counter of test_synchronization advances: one more sample has
\* been run.  In SpecSync this is what every SyncSample step does to nsteps,
\* and it is enabled exactly when SyncSample is.
LoopAdvances ==
  /\ nsteps[1] < SyncSamples
  /\ nsteps' = [nsteps EXCEPT ![0] = @ + 1, ![1] = @ + 1]

\* The loop runs on until its last sample.
SpecSync == InitSync /\ [][NextSync]_vars /\ WF_nsteps(LoopAdvances)

(* --------------------------- entrained effect ------------------------- *)
(* The modulation side of the entrained chorus: its coupled group.  The    *)
(* audio side (delay_base, depth, mix and the delay line read and written  *)
(* through sample_array_read/sample_array_write) does not act on the       *)
(* group and is left out.                                                  *)

\* set_lfo_freq(lfo, f) for f in mHz at 48 kHz: the increment becomes
\* round(f / 1000 / 48000 * 2^32) = round(f * 2^22 / 46875); the phase is
\* kept.
set_lfo_freq(lfo, mHz) ==
  LET q == (mHz * 2^11) \div 46875
      r == (mHz * 2^11) % 46875
      n == q * 2^11 + RoundDiv(r * 2^11, 46875)
  IN  [lfo EXCEPT !.step = U32Of(n \div TWO_POW_16, n % TWO_POW_16)]

\* The pot settings explored: pot[0] is the coupling (0, 0.25, 1.0), rate
\* is linear(pot[1], 0.2, 5) in mHz for pot[1] = 0 and pot[1] = 1.
EntrainedPots ==
  { [coupling |-> k, rate |-> r] : k \in {0, 2^12, 2^14}, r \in {200, 5000} }

\* entrained_init: count and coupling are set and voice i is detuned by
\* (i - ENTRAINED_VOICES / 2) * 15 % from the base rate.
entrained_init(grp, pot) ==
  [lfos |-> [i \in Slots |->
               IF i < ENTRAINED_VOICES
               THEN set_lfo_freq(grp.lfos[i],
                      (pot.rate * (100 + (i - ENTRAINED_VOICES \div 2) * 15)) \div 100)
               ELSE grp.lfos[i]],
   count |-> ENTRAINED_VOICES,
   coupling |-> pot.coupling]

\* The loop of entrained_step from voice i on: the outcomes, each the group
\* after the loop, the indices stepped in order and their extras.
RECURSIVE entrained_loop(_, _)
entrained_loop(grp, i) ==
  IF i >= ENTRAINED_VOICES
  THEN { [g |-> grp, order |-> << >>, extra |-> << >>, val |-> << >>] }
  ELSE UNION { { [g     |-> rest.g,
                  order |-> <<i>> \o rest.order,
                  extra |-> <<out.extra>> \o rest.extra,
                  val   |-> <<out.val>> \o rest.val]
                 : rest \in entrained_loop(out.g, i + 1) }
               : out \in coupled_lfo_step(grp, i, lfo_sinewave) }

\* Mutant of entrained_step: the loop starts at voice 1.
entrained_step_from_one(grp) == entrained_loop(grp, 1)

\* entrained_step: the loop over all voices.
entrained_step(grp) == entrained_loop(grp, 0)

\* The effect as the host starts it: the zeroed static group configured by
\* entrained_init.
InitEntrained ==
  \E pot \in EntrainedPots :
    InitWith(entrained_init([lfos |-> [i \in Slots |-> ZeroLfo],
                             count |-> 0, coupling |-> 0], pot))

\* The host calls entrained_init again after a pot has moved.
EntrainedInit(pot) ==
  /\ g' = entrained_init(g, pot)
  /\ cfg' = g'
  /\ standalone' = g'.lfos
  /\ call' = [NoCall(g) EXCEPT !.op = "entrained_init"]
  /\ UNCHANGED <<nsteps, stepped, extras, basspurr, purrlog>>

\* The host calls entrained_step for one sample.
EntrainedStep ==
  /\ nsteps[0] < EntrainedSamples
  /\ \E out \in entrained_step(g) :
       /\ g' = out.g
       /\ extras' = [i \in Slots |->
                       IF \E k \in 1 .. Len(out.order) : out.order[k] = i
                       THEN out.extra[CHOOSE k \in 1 .. Len(out.order) : out.order[k] = i]
                       ELSE extras[i]]
       /\ nsteps' = [i \in Slots |->
                       nsteps[i] + Cardinality({k \in 1 .. Len(out.order) : out.order[k] = i})]
       /\ stepped' = {out.order[k] : k \in 1 .. Len(out.order)}
       /\ call' = [op |-> "entrained", idx |-> 0, type |-> lfo_sinewave,
                   val |-> 0, ref |-> 0, coupled |-> coupling_enabled(g),
                   extra |-> U32Zero, r |-> 0, pre |-> g, order |-> out.order]
  /\ UNCHANGED <<cfg, standalone, basspurr, purrlog>>

NextEntrained ==
  \/ \E pot \in EntrainedPots : EntrainedInit(pot)
  \/ EntrainedStep

SpecEntrained == InitEntrained /\ [][NextEntrained]_vars

(* ------------------------- bass-purr octave divider ------------------- *)
(* The divider of the bass-purr effect: envelope follower, sign detector   *)
(* and sub_phase.  The three biquad filters are outside this repository    *)
(* slice: the filtered fundamental is an input of the step, and the mixed  *)
(* output, which depends on the other two filters, is left out.            *)

\* Input samples: silence and half scale.
PurrInputs == {0, 2^13}

\* Values of the filtered fundamental: negative, zero and positive.
PurrFundamentals == {-(2^13), 0, 2^13}

\* basspurr_step on input sample in, with fundamental the output of the
\* input low-pass for it: the state after the call and the sign seen.
basspurr_step(bp, in, fundamental) ==
  LET envelope     == bp.envelope + RoundDiv(Abs(in) - bp.envelope, 100)
      current_sign == IF fundamental >= 0 THEN 1 ELSE -1
      toggled      == IF -bp.sub_phase = 0 THEN 1 ELSE -bp.sub_phase
      sub_phase    == IF current_sign # bp.last_sign THEN toggled
                      ELSE bp.sub_phase
  IN  [bp   |-> [last_sign |-> current_sign, sub_phase |-> sub_phase,
                 envelope |-> envelope],
       sign |-> current_sign]

\* The effect after basspurr_init; the coupled group is not used.
InitPurr ==
  InitWith([lfos |-> [i \in Slots |-> ZeroLfo], count |-> 0, coupling |-> 0])

\* The host calls basspurr_init again: the divider restarts.
BasspurrInit ==
  /\ basspurr' = basspurr_init
  /\ purrlog' = [NoPurr EXCEPT !.calls = purrlog.calls]
  /\ UNCHANGED <<g, cfg, standalone, nsteps, stepped, extras, call>>

\* The host calls basspurr_step for one sample.
BasspurrStep(in, fundamental) ==
  /\ purrlog.calls < PurrSamples
  /\ LET res == basspurr_step(basspurr, in, fundamental)
     IN  /\ basspurr' = res.bp
         /\ purrlog' =
              [calls     |-> purrlog.calls + 1,
               crossings |-> purrlog.crossings +
                             (IF res.sign # basspurr.last_sign THEN 1 ELSE 0),
               flips     |-> purrlog.flips +
                             (IF res.bp.sub_phase # basspurr.sub_phase THEN 1 ELSE 0),
               sign      |-> res.sign,
               pre       |-> basspurr]
  /\ UNCHANGED <<g, cfg, standalone, nsteps, stepped, extras, call>>

NextPurr ==
  \/ BasspurrInit
  \/ \E in \in PurrInputs, fundamental \in PurrFundamentals :
       BasspurrStep(in, fundamental)

SpecPurr == InitPurr /\ [][NextPurr]_vars

(* ------------------------------ claims -------------------------------- *)

\* n * step modulo 2^32, for a small n.
U32Times(n, step) == LET w == WMul(n, step) IN <<w[1] % TWO_POW_16, w[2]>>

\* C1: with coupling == 0 (any count) or count <= 1 (any coupling), every
\* stepped oscillator moves exactly like a standalone oscillator with the
\* same phase and increment: after n calls its phase is the initial phase
\* plus n increments modulo 2^32, equal to the standalone oscillator's, and
\* the sample each call returns equals the standalone oscillator's sample.
C1_ZeroCouplingIsStandalone ==
  (g.coupling = 0 \/ g.count <= 1) =>
    /\ \A i \in Active :
         /\ g.lfos[i].idx = standalone[i].idx
         /\ g.lfos[i].idx =
              U32Add(cfg.lfos[i].idx, U32Times(nsteps[i], cfg.lfos[i].step))
    /\ call.op = "step" => call.val = call.ref

\* Witness of C1: a group of two with zero coupling whose oscillators are a
\* quarter turn apart, one of them stepped twice.
C1_Witness ==
  /\ g.coupling = 0
  /\ g.count >= 2
  /\ call.op = "step"
  /\ nsteps[call.idx] >= 2
  /\ coupling_sum(call.pre, call.idx) # 0

\* C3: no call ever modifies an increment: every slot's step is the one it
\* was configured with, so the sum of the increments is unchanged.
C3_IncrementsNeverModified ==
  \A i \in Slots : g.lfos[i].step = cfg.lfos[i].step

\* Witness of C3: a coupled step that added a non-zero extra phase advance.
C3_Witness ==
  /\ call.op = "step"
  /\ call.coupled
  /\ call.extra # U32Zero

\* C7: coupled_lfo_order_parameter is a pure read: a call leaves the phases,
\* the increments, the count and the coupling as they were.
C7_OrderParameterPureRead == [][OrderParameter => g' = g]_vars

\* Witness of C7: an order-parameter call made between steps of a coupled
\* group of at least two oscillators.
C7_Witness ==
  /\ call.op = "order"
  /\ g.count >= 2
  /\ g.coupling > 0
  /\ TotalSteps >= 1
  /\ g = call.pre

\* C10: for count == 0 the order parameter is exactly 0, whatever the
\* coupling and the contents of the slots.
C10_EmptyGroupIsZero ==
  (call.op = "order" /\ call.pre.count = 0) => call.r = 0

\* Witness of C10: the order parameter of an empty group with a non-zero
\* coupling and non-zero slot contents.
C10_Witness ==
  /\ call.op = "order"
  /\ call.pre.count = 0
  /\ call.pre.coupling # 0
  /\ call.pre.lfos[0] # ZeroLfo

\* The extra phase advance e (a u32 bit pattern of an s32) is negative.
ExtraNeg(e) == e[1] >= 2^15

\* The magnitude of the s32 whose bit pattern is e.
ExtraMag(e) == IF ExtraNeg(e) THEN U32Neg(e) ELSE e

\* The high half of the s32 whose bit pattern is e, signed.
SignedHi(e) == IF ExtraNeg(e) THEN e[1] - TWO_POW_16 ELSE e[1]

RECURSIVE ExtraHiSum(_)
ExtraHiSum(n) == IF n < 0 THEN 0 ELSE SignedHi(extras[n]) + ExtraHiSum(n - 1)

RECURSIVE ExtraLoSum(_)
ExtraLoSum(n) == IF n < 0 THEN 0 ELSE extras[n][2] + ExtraLoSum(n - 1)

\* The sum of the signed extra advances of oscillators 0 .. count-1 is at
\* most n in magnitude.
ExtraSumWithin(n) ==
  LET lsum == ExtraLoSum(g.count - 1)
      lo   == lsum % TWO_POW_16
      hi   == ExtraHiSum(g.count - 1) + (lsum \div TWO_POW_16)
  IN  \/ hi = 0 /\ lo <= n
      \/ hi = -1 /\ TWO_POW_16 - lo <= n

\* C2: frequency conservation: when every oscillator of a group with
\* count >= 2 and coupling # 0 has been stepped once for one sample, the
\* extra phase advances the coupling applied sum to zero up to rounding, at
\* most one phase unit per oscillator.
C2_FrequencyConservation ==
  (g.count >= 2 /\ g.coupling # 0 /\ stepped = Active) => ExtraSumWithin(g.count)

\* The group before the latest call enables the coupled branch as the code
\* tests it.
PreOn == call.pre.coupling > 0 /\ call.pre.count > 1

\* adj as the latest call computed it.
PreAdj == coupling_adj(call.pre, call.idx)

\* |adj * step| as the latest call computed it (14 fraction bits).
PreProd == adj_times_step(PreAdj, call.pre.lfos[call.idx].step)

\* C4 (as amended): coupled_lfo_step skips the coupling adjustment if and
\* only if coupling <= 0 or count <= 1; then the phase advances by the
\* increment alone.  For every coupling > 0 (values above 1 included) with
\* count >= 2 it applies the s32 conversion of coupling * sum / count * step,
\* the sum taken over j # idx, and then the increment.
C4_CouplingAppliedIffPositive ==
  call.op = "step" =>
    LET lfo == call.pre.lfos[call.idx]
    IN  /\ call.coupled = PreOn
        /\ ~PreOn => g.lfos[call.idx].idx = U32Add(lfo.idx, lfo.step)
        /\ PreOn =>
             /\ call.extra \in S32Cast(PreAdj < 0, PreProd)
             /\ g.lfos[call.idx].idx =
                  U32Add(U32Add(lfo.idx, call.extra), lfo.step)

\* C4 (as claimed): the coupling adjustment is skipped if and only if
\* coupling == 0 or count <= 1.
C4_CouplingSkippedIffZero ==
  call.op = "step" =>
    (~call.coupled <=> (call.pre.coupling = 0 \/ call.pre.count <= 1))

\* Witness of C4: a step of a group of at least two with a negative coupling
\* and a non-zero coupling sum, which skipped the adjustment.
C4_Witness ==
  /\ call.op = "step"
  /\ call.pre.coupling < 0
  /\ call.pre.count >= 2
  /\ coupling_sum(call.pre, call.idx) # 0
  /\ ~call.coupled

\* C5 (as amended): in the coupled path, when adj * increment lies in the
\* range of an s32, the extra phase advance is that product truncated
\* toward zero: |extra| <= |adj * increment| < |extra| + 1, with the sign of
\* adj.
C5_ExtraIsTruncatedProduct ==
  (call.op = "step" /\ call.coupled /\ S32InRange(PreAdj < 0, PreProd)) =>
    LET mag == ExtraMag(call.extra)
    IN  /\ WLe(WShl14(mag), PreProd)
        /\ WLt(PreProd, WShl14(WAdd(mag, <<0, 1>>)))
        /\ mag # U32Zero => (ExtraNeg(call.extra) <=> PreAdj < 0)

\* C5 (as claimed): in the coupled path the extra phase advance is
\* adj * increment rounded to the nearest integer.
C5_ExtraIsRoundedProduct ==
  (call.op = "step" /\ call.coupled /\ S32InRange(PreAdj < 0, PreProd)) =>
    ExtraMag(call.extra) = WShr14(WAdd(PreProd, <<0, 2^13>>))

\* Witness of C5: a coupled step with a negative adj whose product with the
\* increment has a fraction of at least one half.
C5_Witness ==
  /\ call.op = "step"
  /\ call.coupled
  /\ S32InRange(PreAdj < 0, PreProd)
  /\ PreAdj < 0
  /\ PreProd[2] % 2^14 >= 2^13

\* C6: for coupling in [0,1] and 2 to 8 oscillators, the extra phase advance
\* of a step is at most coupling * increment in magnitude, and the phase
\* moves by increment + extra.
C6_ExtraBoundedByCoupling ==
  (/\ call.op = "step"
   /\ call.pre.coupling >= 0 /\ call.pre.coupling <= FLOAT_ONE
   /\ call.pre.count >= 2 /\ call.pre.count <= MAX_COUPLED_LFOS) =>
    LET lfo == call.pre.lfos[call.idx]
    IN  /\ WLe(WShl14(ExtraMag(call.extra)), WMul(call.pre.coupling, lfo.step))
        /\ g.lfos[call.idx].idx =
             U32Add(lfo.idx, U32Add(lfo.step, call.extra))

\* Witness of C6: a step at coupling 1.0 in a group of three that pulled
\* the oscillator back.
C6_Witness ==
  /\ call.op = "step"
  /\ call.pre.coupling = FLOAT_ONE
  /\ call.pre.count >= 3
  /\ call.coupled
  /\ ExtraNeg(call.extra)

C9_SingleOscillatorNearOne ==
  (call.op = "order" /\ call.pre.count = 1) => call.r * 1000 > 999 * FLOAT_ONE

\* Witness of C9: the order parameter of a single oscillator read after a
\* step, at a phase between two table nodes.
C9_Witness ==
  /\ call.op = "order"
  /\ call.pre.count = 1
  /\ nsteps[0] >= 1
  /\ g.lfos[0].idx[2] # 0

\* C12: the lookup-table sine is odd on wrapped phase differences: for every
\* pair of oscillators i, j of the group, phase_sin(idx[i] - idx[j]) is the
\* exact negative of phase_sin(idx[j] - idx[i]), so that the two pairwise
\* coupling terms of the pair cancel.
C12_PhaseSinOdd ==
  \A i \in Active : \A j \in Active :
    phase_sin(U32Sub(g.lfos[i].idx, g.lfos[j].idx)) =
      -phase_sin(U32Sub(g.lfos[j].idx, g.lfos[i].idx))

\* C13: in the coupled path the coupling sum is taken from the phases as
\* they are before the stepped oscillator's own advance, and the call moves
\* phase[idx] by exactly (increment[idx] + extra) modulo 2^32, wrapping
\* silently: the increment is advanced exactly once, after the extra, and
\* the returned sample is read at the phase so reached.
C13_CoupledAdvanceOnce ==
  (call.op = "step" /\ call.coupled) =>
    LET lfo  == call.pre.lfos[call.idx]
        sum  == coupling_sum_from(call.pre, call.idx, 0)
        adj  == FDivInt(FMul(call.pre.coupling, sum), call.pre.count)
        next == U32Add(U32Add(lfo.idx, call.extra), lfo.step)
    IN  /\ call.extra \in S32Cast(adj < 0, adj_times_step(adj, lfo.step))
        /\ g.lfos[call.idx].idx = next
        /\ g.lfos[call.idx].idx = U32Add(lfo.idx, U32Add(lfo.step, call.extra))
        /\ call.val = lfo_readout(next, call.type)

\* Witness of C13: a coupled step with a positive extra advance whose sum
\* with the increment carried the phase past 2^32.
C13_Witness ==
  /\ call.op = "step"
  /\ call.coupled
  /\ call.extra # U32Zero
  /\ ~ExtraNeg(call.extra)
  /\ WLt(g.lfos[call.idx].idx, call.pre.lfos[call.idx].idx)

\* The phase of oscillator i as a call made now reads it, in terms of the
\* configured group: already advanced (by its increment and its extra) when
\* i has been stepped, as configured when it has not.
PhaseAtCall(i) ==
  IF nsteps[i] = 1
  THEN U32Add(cfg.lfos[i].idx, U32Add(cfg.lfos[i].step, extras[i]))
  ELSE cfg.lfos[i].idx

\* The coupling sum of oscillator j over PhaseAtCall of the others from
\* index from on, against j's configured phase.
RECURSIVE MixedSumFrom(_, _)
MixedSumFrom(j, from) ==
  IF from >= cfg.count THEN 0
  ELSE (IF from = j THEN 0
        ELSE phase_sin(U32Sub(PhaseAtCall(from), cfg.lfos[j].idx)))
       + MixedSumFrom(j, from + 1)

\* The groups a sample can end in when the indices of order are stepped one
\* after the other from grp.
RECURSIVE SampleInOrder(_, _)
SampleInOrder(grp, order) ==
  IF order = << >> THEN {grp}
  ELSE UNION { SampleInOrder(out.g, Tail(order))
               : out \in coupled_lfo_step(grp, Head(order), lfo_sinewave) }

\* C14: coupled_lfo_step keeps no per-sample snapshot.  Within the first
\* sample after configuration (no oscillator stepped twice), the extra
\* advance of the oscillator stepped last comes from a coupling sum over the
\* already-advanced phases of the oscillators stepped before it and the
\* configured phases of those not yet stepped.
C14_NoSnapshot ==
  (/\ call.op = "step"
   /\ call.coupled
   /\ \A i \in Slots : nsteps[i] <= 1) =>
    LET j   == call.idx
        adj == FDivInt(FMul(cfg.coupling, MixedSumFrom(j, 0)), cfg.count)
    IN  call.extra \in S32Cast(adj < 0, adj_times_step(adj, cfg.lfos[j].step))

\* Witness of C14: a group of two stepped 0 then 1 for one sample, where
\* oscillator 1 read the advanced phase of oscillator 0, and the phases
\* reached differ from those of the order 1 then 0.
C14_Witness ==
  /\ call.op = "step"
  /\ call.coupled
  /\ g.count = 2
  /\ nsteps[0] = 1 /\ nsteps[1] = 1
  /\ call.idx = 1
  /\ PhaseAtCall(0) # cfg.lfos[0].idx
  /\ g \notin SampleInOrder(cfg, <<1, 0>>)

\* C15: a call coupled_lfo_step(g, idx, type) with 0 <= idx < count modifies
\* only the phase of oscillator idx: every other slot, active or inert, the
\* increment of idx, the count and the coupling are as before the call,
\* for every coupling value and waveform.
C15_StepFrame ==
  (call.op = "step" /\ call.idx < call.pre.count) =>
    /\ \A i \in Slots \ {call.idx} : g.lfos[i] = call.pre.lfos[i]
    /\ g.lfos[call.idx].step = call.pre.lfos[call.idx].step
    /\ g.count = call.pre.count
    /\ g.coupling = call.pre.coupling

\* Witness of C15: a coupled triangle-wave step that pulled its oscillator,
\* in a group with another active oscillator and a configured inert slot.
C15_Witness ==
  /\ call.op = "step"
  /\ call.type = lfo_triangle
  /\ call.coupled
  /\ call.extra # U32Zero
  /\ g.lfos[call.idx].idx # call.pre.lfos[call.idx].idx
  /\ \E i \in Slots : i >= g.count /\ g.lfos[i] # ZeroLfo

\* The group grp with every inert slot (index >= count) overwritten by junk.
WithInert(grp, junk) ==
  [grp EXCEPT !.lfos = [i \in Slots |-> IF i < grp.count THEN grp.lfos[i]
                                         ELSE junk]]

\* Contents an inert slot may hold.
InertJunk ==
  { ZeroLfo, LfoState(U32Of(2^14, 0), U32Of(61440, 0)) }

\* C16: inert slots are never read: for every count, the coupling sum and
\* the extra advance of a call coupled_lfo_step with idx < count, and the
\* result of coupled_lfo_order_parameter, are the same whatever the slots
\* at index >= count contain.
C16_InertSlotsNeverRead ==
  \A junk \in InertJunk :
    LET other == WithInert(call.pre, junk)
    IN  /\ (call.op = "step" /\ call.idx < call.pre.count) =>
             /\ coupling_sum(other, call.idx) = coupling_sum(call.pre, call.idx)
             /\ coupling_extra(other, call.idx) = coupling_extra(call.pre, call.idx)
             /\ call.extra \in coupling_extra(other, call.idx)
        /\ call.op = "order" =>
             coupled_lfo_order_parameter(other).r = call.r

\* Witness of C16: a coupled step and a later order-parameter read in a
\* group of two whose inert slot 2 holds a configured oscillator.
C16_Witness ==
  /\ call.op = "order"
  /\ g.count = 2
  /\ g.coupling > 0
  /\ g.lfos[2] # ZeroLfo
  /\ extras[0] # U32Zero
  /\ WithInert(g, ZeroLfo) # g

\* C19: for coupling in [0,1], 2 to 8 oscillators and every increment of
\* the group below 2^31, the product adj * increment that the coupled path
\* converts to an s32 has a magnitude below 2^31, so the conversion is
\* defined and the extra advance is the truncated product.
C19_ProductFitsS32 ==
  (/\ call.op = "step"
   /\ call.coupled
   /\ call.pre.coupling >= 0 /\ call.pre.coupling <= FLOAT_ONE
   /\ call.pre.count >= 2 /\ call.pre.count <= MAX_COUPLED_LFOS
   /\ \A i \in 0 .. (call.pre.count - 1) : call.pre.lfos[i].step[1] < 2^15) =>
    /\ WLt(WShr14(PreProd), <<2^15, 0>>)
    /\ ExtraMag(call.extra) = WShr14(PreProd)

\* Witness of C19: a step at coupling 1.0 of an oscillator whose increment
\* is 2^31 - 1, pulled by at least a quarter of that increment.
C19_Witness ==
  /\ call.op = "step"
  /\ call.coupled
  /\ call.pre.coupling = FLOAT_ONE
  /\ \A i \in 0 .. (call.pre.count - 1) : call.pre.lfos[i].step[1] < 2^15
  /\ call.pre.lfos[call.idx].step = <<2^15 - 1, TWO_POW_16 - 1>>
  /\ ExtraMag(call.extra)[1] >= 2^13

\* C17 (as amended): the engine has no error outcome.  A call with
\* count <= idx < 8 is not checked: it returns a sample of the waveform as
\* any call does, computes the extra advance from all active oscillators
\* and advances the phase of the inert slot idx by increment + extra modulo
\* 2^32 (which leaves a slot with increment 0 and extra 0 where it was),
\* while oscillators 0 .. count-1, the count and the coupling are unchanged.
C17_InertStepAdvancesSlot ==
  (call.op = "step" /\ call.idx >= call.pre.count) =>
    LET lfo == call.pre.lfos[call.idx]
    IN  /\ call.extra \in coupling_extra(call.pre, call.idx)
        /\ g.lfos[call.idx].idx = U32Add(U32Add(lfo.idx, call.extra), lfo.step)
        /\ call.val = lfo_readout(g.lfos[call.idx].idx, call.type)
        /\ call.val >= -FLOAT_ONE /\ call.val <= FLOAT_ONE
        /\ \A i \in 0 .. (call.pre.count - 1) : g.lfos[i] = call.pre.lfos[i]
        /\ g.count = call.pre.count /\ g.coupling = call.pre.coupling

\* C17 (as claimed): a call with count <= idx < 8 changes the phase of the
\* inert slot idx and leaves oscillators 0 .. count-1 unchanged.
C17_InertStepChangesPhase ==
  (call.op = "step" /\ call.idx >= call.pre.count) =>
    /\ g.lfos[call.idx].idx # call.pre.lfos[call.idx].idx
    /\ \A i \in 0 .. (call.pre.count - 1) : g.lfos[i] = call.pre.lfos[i]

\* Witness of C17: a step of inert slot 2 of a coupled group of two, which
\* pulled the slot's phase by a non-zero extra.
C17_Witness ==
  /\ call.op = "step"
  /\ call.idx = 2
  /\ call.pre.count = 2
  /\ call.coupled
  /\ call.extra # U32Zero
  /\ g.lfos[2].idx # call.pre.lfos[2].idx

\* The order parameter of the group as it is now.
OrderR == IF g.count = 0 THEN 0 ELSE coupled_lfo_order_parameter(g).r

\* The group is more than 0.95 synchronised (r is a whole number of grid
\* units, so r > 0.95 * FLOAT_ONE is r > floor(0.95 * FLOAT_ONE)).
Synchronised == OrderR > (95 * FLOAT_ONE) \div 100

\* The configured coupling is between 0.25 and 1 and the common increment
\* between 2^17 and 2^28 phase units per sample.
SyncInRange ==
  /\ cfg.coupling >= 2^12 /\ cfg.coupling <= FLOAT_ONE
  /\ WLe(<<2, 0>>, cfg.lfos[0].step) /\ WLe(cfg.lfos[0].step, <<4096, 0>>)

C18_EntrainedStepsEachOnce ==
  /\ g.count = ENTRAINED_VOICES
  /\ g.count <= MAX_COUPLED_LFOS
  /\ \A i \in Active : nsteps[i] = nsteps[0]
  /\ \A i \in Slots \ Active : nsteps[i] = 0
  /\ call.op = "entrained" =>
       /\ call.order = [k \in 1 .. g.count |-> k - 1]
       /\ stepped = Active

\* Witness of C18: the second sample of a coupled entrained group whose
\* voices have drifted apart and pull on each other.
C18_Witness ==
  /\ call.op = "entrained"
  /\ call.coupled
  /\ nsteps[0] >= 2
  /\ \E i \in Active : extras[i] # U32Zero

\* Whole periods completed since the first of n alternations of a two-valued
\* signal (a period is two alternations).
PeriodsSinceFirst(n) == IF n = 0 THEN 0 ELSE (n - 1) \div 2

\* C20: after basspurr_init, sub_phase is always 0, +1 or -1; it is 0
\* exactly until the first sign change of the fundamental, which makes it
\* +1; after that each call flips it if the fundamental's sign differs from
\* the previous call's and leaves it otherwise; and it completes one period
\* per two periods of the fundamental.
C20_OctaveDivider ==
  /\ basspurr.sub_phase \in {0, 1, -1}
  /\ basspurr.sub_phase = 0 <=> purrlog.crossings = 0
  /\ purrlog.crossings = 1 => basspurr.sub_phase = 1
  /\ purrlog.calls > 0 =>
       basspurr.sub_phase =
         IF purrlog.sign = purrlog.pre.last_sign THEN purrlog.pre.sub_phase
         ELSE IF purrlog.pre.sub_phase = 0 THEN 1 ELSE -purrlog.pre.sub_phase
  /\ PeriodsSinceFirst(purrlog.flips) =
       PeriodsSinceFirst(purrlog.crossings) \div 2

====
